---- MODULE Spec2Model ----
(***************************************************************************)
(* Pricing-catalog cache and cost computation of mamood_llm_cost_estimator *)
(* (openrouter.py, estimator.py, models.py).                               *)
(*                                                                         *)
(* Representation.  Time and finite floats are exact integers in a fixed   *)
(* unit; float("nan") and float("inf") are the values NaN and Inf, with    *)
(* the arithmetic of IEEE floats on them.  Python strings are sequences of *)
(* one-character strings.  JSON values are records [t, n, s] tagged by     *)
(* their type.  None is a record with some = FALSE.                        *)
(***************************************************************************)
EXTENDS Integers, Sequences, FiniteSets, TLC

\* ------------------------------------------------------------- bounds
MaxClock == 3
MaxFetchTime == 1
MaxTTL == 1
MaxTokens == 2
MaxPrice == 2

\* ------------------------------------------------------------- floats
NaN == -1000001
Inf == -1000002

\* x < 0 on floats: every comparison with nan is False
FLtZero(x) == IF x = NaN THEN FALSE ELSE IF x = Inf THEN FALSE ELSE x < 0

\* int * float, the int being a finite token count
FMul(k, p) ==
    IF p = NaN THEN NaN
    ELSE IF p = Inf THEN (IF k = 0 THEN NaN ELSE Inf)
    ELSE k * p

FAdd(a, b) ==
    IF a = NaN \/ b = NaN THEN NaN
    ELSE IF a = Inf \/ b = Inf THEN Inf
    ELSE a + b

Max(a, b) == IF a >= b THEN a ELSE b

\* ------------------------------------------------------------- Optional
None == [some |-> FALSE, v |-> 0]
Some(x) == [some |-> TRUE, v |-> x]

\* ------------------------------------------------------------- strings
UpperChars == <<"A","B","C","D","E","F","G","H","I","J","K","L","M",
                "N","O","P","Q","R","S","T","U","V","W","X","Y","Z">>
LowerChars == <<"a","b","c","d","e","f","g","h","i","j","k","l","m",
                "n","o","p","q","r","s","t","u","v","w","x","y","z">>
Whitespace == {" ", "\t"}

LowerChar(ch) ==
    IF \E i \in 1..Len(UpperChars) : UpperChars[i] = ch
    THEN LowerChars[CHOOSE i \in 1..Len(UpperChars) : UpperChars[i] = ch]
    ELSE ch

UpperChar(ch) ==
    IF \E i \in 1..Len(LowerChars) : LowerChars[i] = ch
    THEN UpperChars[CHOOSE i \in 1..Len(LowerChars) : LowerChars[i] = ch]
    ELSE ch

\* str.lower()
Lower(s) == [i \in 1..Len(s) |-> LowerChar(s[i])]

\* str.startswith(p)
StartsWith(s, p) == Len(s) >= Len(p) /\ SubSeq(s, 1, Len(p)) = p

\* str.strip()
Strip(s) ==
    LET keep == {i \in 1..Len(s) : s[i] \notin Whitespace}
    IN  IF keep = {} THEN <<>>
        ELSE LET lo == CHOOSE i \in keep : \A j \in keep : i <= j
                 hi == CHOOSE i \in keep : \A j \in keep : i >= j
             IN  SubSeq(s, lo, hi)

HasSlash(s) == \E i \in 1..Len(s) : s[i] = "/"

\* s.split("/", maxsplit=1)[0]
BeforeSlash(s) ==
    IF HasSlash(s)
    THEN LET k == CHOOSE i \in 1..Len(s) :
                     s[i] = "/" /\ \A j \in 1..(i - 1) : s[j] # "/"
         IN  SubSeq(s, 1, k - 1)
    ELSE s

\* ------------------------------------------------------------- JSON values
JAbsent == [t |-> "absent", n |-> 0, s |-> <<>>]
JNull == [t |-> "null", n |-> 0, s |-> <<>>]
JNum(n) == [t |-> "num", n |-> n, s |-> <<>>]
JNumStr(n) == [t |-> "numstr", n |-> n, s |-> <<"#">>]
JStr(s) == [t |-> "str", n |-> 0, s |-> s]
JNaN == [t |-> "nan", n |-> 0, s |-> <<>>]
JInf == [t |-> "inf", n |-> 0, s |-> <<>>]
JObj == [t |-> "obj", n |-> 0, s |-> <<>>]

\* isinstance(v, str)
IsStr(v) == v.t \in {"str", "numstr"}

\* dict.get(key) is None: the key is missing or its value is null
IsNone(v) == v.t \in {"absent", "null"}

\* ------------------------------------------------------------- parsing
\* OpenRouterClient._parse_price
ParsePrice(value) ==
    IF IsNone(value) THEN 0
    ELSE IF value.t \in {"str", "obj"} THEN 0          \* ValueError, TypeError
    ELSE LET parsed == IF value.t = "nan" THEN NaN
                       ELSE IF value.t = "inf" THEN Inf
                       ELSE value.n
         IN  IF FLtZero(parsed) THEN 0 ELSE parsed

\* OpenRouterClient._parse_int: [raised, v]; int(float("inf")) raises
\* OverflowError, which the except clause does not name
ParseInt(value) ==
    IF value.t = "inf" THEN [raised |-> "OverflowError", v |-> 0]
    ELSE IF value.t \in {"num", "numstr"}
         THEN [raised |-> "none", v |-> Max(0, value.n)]
         ELSE [raised |-> "none", v |-> 0]             \* ValueError, TypeError

Str_OpenAI == <<"O","p","e","n","A","I">>
Str_Google == <<"G","o","o","g","l","e">>
Str_Anthropic == <<"A","n","t","h","r","o","p","i","c">>
Str_Mistral == <<"M","i","s","t","r","a","l">>
Str_Meta == <<"M","e","t","a">>
Str_Cohere == <<"C","o","h","e","r","e">>
Str_DeepSeek == <<"D","e","e","p","S","e","e","k">>
Str_Alibaba == <<"A","l","i","b","a","b","a">>
Str_Microsoft == <<"M","i","c","r","o","s","o","f","t">>
Str_Perplexity == <<"P","e","r","p","l","e","x","i","t","y">>
Str_Other == <<"O","t","h","e","r">>

\* OpenRouterClient._guess_provider: [raised, v]; provider[0] of an empty
\* string raises IndexError
GuessProvider(model_id, name) ==
    LET lower_id == Lower(model_id)
        ok(p) == [raised |-> "none", v |-> p]
    IN  IF StartsWith(lower_id, <<"o","p","e","n","a","i","/">>) THEN ok(Str_OpenAI)
        ELSE IF StartsWith(lower_id, <<"g","o","o","g","l","e","/">>) THEN ok(Str_Google)
        ELSE IF StartsWith(lower_id, <<"a","n","t","h","r","o","p","i","c","/">>)
             THEN ok(Str_Anthropic)
        ELSE IF StartsWith(lower_id, <<"m","i","s","t","r","a","l">>) THEN ok(Str_Mistral)
        ELSE IF StartsWith(lower_id, <<"m","e","t","a","-","l","l","a","m","a","/">>)
                \/ StartsWith(lower_id, <<"m","e","t","a","/">>) THEN ok(Str_Meta)
        ELSE IF StartsWith(lower_id, <<"c","o","h","e","r","e","/">>) THEN ok(Str_Cohere)
        ELSE IF StartsWith(lower_id, <<"d","e","e","p","s","e","e","k","/">>)
             THEN ok(Str_DeepSeek)
        ELSE IF StartsWith(lower_id, <<"q","w","e","n","/">>) THEN ok(Str_Alibaba)
        ELSE IF StartsWith(lower_id, <<"m","i","c","r","o","s","o","f","t","/">>)
             THEN ok(Str_Microsoft)
        ELSE IF StartsWith(lower_id, <<"p","e","r","p","l","e","x","i","t","y","/">>)
             THEN ok(Str_Perplexity)
        ELSE IF HasSlash(model_id) /\ BeforeSlash(model_id) # <<>>
             THEN LET provider == Lower(Strip(BeforeSlash(model_id)))
                  IN  IF provider = <<>>
                      THEN [raised |-> "IndexError", v |-> <<>>]
                      ELSE ok(<<UpperChar(provider[1])>> \o Tail(provider))
        ELSE ok(Str_Other)

\* ------------------------------------------------------------- catalog
\* A raw item of the response's data array.  isDict = FALSE: the item is
\* not a JSON object.  pricingIsDict = FALSE: item["pricing"] is missing or
\* not an object, so every pricing.get(...) is None.
RawItem(id, name, ctx, prompt, completion, cached_prompt) ==
    [isDict |-> TRUE, id |-> id, name |-> name, context_length |-> ctx,
     pricingIsDict |-> TRUE, prompt |-> prompt, completion |-> completion,
     cached_prompt |-> cached_prompt]

NonDictItem ==
    [isDict |-> FALSE, id |-> JAbsent, name |-> JAbsent, context_length |-> JAbsent,
     pricingIsDict |-> FALSE, prompt |-> JAbsent, completion |-> JAbsent,
     cached_prompt |-> JAbsent]

PricingGet(item, v) == IF item.pricingIsDict THEN v ELSE JAbsent

\* a missing cached_prompt parsed like the other prices, to 0.0
CachedPriceOf_AlwaysParsed(cached_prompt) == Some(ParsePrice(cached_prompt))

\* the cached_input_price_per_token_usd argument of lines 165-169
CachedPriceOf(cached_prompt) ==
    IF ~IsNone(cached_prompt) THEN Some(ParsePrice(cached_prompt)) ELSE None

\* the item is skipped by one of the two `continue`s
Skipped(item) == ~item.isDict \/ ~IsStr(item.id) \/ item.id.s = <<>>

\* ModelCatalogEntry(...) of lines 155-171: [raised, v]
MakeEntry(item) ==
    LET model_id == item.id.s
        model_name == IF IsStr(item.name) THEN item.name.s ELSE model_id
        prov == GuessProvider(model_id, model_name)
        ctx == ParseInt(item.context_length)
        raised == IF prov.raised # "none" THEN prov.raised ELSE ctx.raised
    IN  [raised |-> raised,
         v |-> [id |-> model_id,
                name |-> model_name,
                provider |-> prov.v,
                context_window |-> ctx.v,
                input_price_per_token_usd |-> ParsePrice(PricingGet(item, item.prompt)),
                output_price_per_token_usd |->
                    ParsePrice(PricingGet(item, item.completion)),
                cached_input_price_per_token_usd |->
                    CachedPriceOf(PricingGet(item, item.cached_prompt))]]

\* the loop of lines 138-171 over raw_data: [raised, models]
RECURSIVE Normalize(_)
Normalize(raw_data) ==
    IF raw_data = <<>> THEN [raised |-> "none", models |-> <<>>]
    ELSE IF Skipped(Head(raw_data)) THEN Normalize(Tail(raw_data))
    ELSE LET e == MakeEntry(Head(raw_data))
         IN  IF e.raised # "none" THEN [raised |-> e.raised, models |-> <<>>]
             ELSE LET rest == Normalize(Tail(raw_data))
                  IN  IF rest.raised # "none" THEN rest
                      ELSE [raised |-> "none", models |-> <<e.v>> \o rest.models]

\* ------------------------------------------------------------- sample data
Id_m == <<"m">>
Id_M == <<"M">>
Id_xy == <<"x", "/", "y">>
Id_z == <<"z">>
Id_blank == <<" ", "/", "y">>

Item_m1 == RawItem(JStr(Id_m), JAbsent, JNum(8), JNum(1), JNum(2), JAbsent)
Item_m2 == RawItem(JStr(Id_m), JStr(<<"n">>), JNumStr(4), JNum(2), JNum(1), JNum(0))
Item_M == RawItem(JStr(Id_M), JAbsent, JAbsent, JNumStr(2), JNum(-1), JNum(1))
Item_xyNull == RawItem(JStr(Id_xy), JNull, JNum(-3), JNum(1), JNum(1), JNull)
Item_xyBad == RawItem(JStr(Id_xy), JObj, JObj, JStr(<<"f">>), JObj, JNum(-1))
Item_zStr == RawItem(JStr(Id_z), JAbsent, JNum(1), JNum(2), JNum(2), JStr(<<"f">>))
Item_noPricing == [RawItem(JStr(Id_z), JAbsent, JNum(1), JNum(2), JNum(2), JNum(1))
                     EXCEPT !.pricingIsDict = FALSE]
Item_noId == RawItem(JAbsent, JStr(<<"n">>), JNum(1), JNum(1), JNum(1), JNum(1))
Item_emptyId == RawItem(JStr(<<>>), JAbsent, JNum(1), JNum(1), JNum(1), JNum(1))
Item_numId == RawItem(JNum(1), JAbsent, JNum(1), JNum(1), JNum(1), JNum(1))
Item_blank == RawItem(JStr(Id_blank), JAbsent, JNum(1), JNum(1), JNum(1), JAbsent)
Item_infCtx == RawItem(JStr(Id_z), JAbsent, JInf, JNum(1), JNum(1), JAbsent)
Item_nan == RawItem(JStr(Id_z), JAbsent, JNaN, JNaN, JNum(1), JNaN)

\* the data arrays the catalog endpoint answers with, by number
PayloadList ==
    << <<Item_m1, Item_m2, Item_M>>,
       <<Item_M, Item_xyNull, Item_m2, Item_m1>>,
       <<NonDictItem, Item_xyBad, Item_noId, Item_emptyId, Item_zStr, Item_numId>>,
       <<Item_noPricing>>,
       <<Item_m1, Item_blank>>,
       <<Item_infCtx, Item_m1>>,
       <<Item_m2, Item_nan>>,
       <<>> >>

\* ------------------------------------------------------------- transport
\* What the GET produced.  kind:
\*   HTTPError, URLError   urlopen raised it
\*   ReadError             response.read() or .decode("utf-8") raised
\*                         (TimeoutError, IncompleteRead, UnicodeDecodeError)
\*   NotJSON               json.loads raised JSONDecodeError
\*   NonObject             the payload is not a dict
\*   NoData                a dict without a "data" key
\*   DataNotArray          a dict whose "data" is not a list
\*   Data                  a dict whose "data" is the list PayloadList[payload]
\*   NoFetch               no request was made
Resp(kind, payload) == [kind |-> kind, payload |-> payload]
NoFetch == Resp("NoFetch", 0)

\* OpenRouterClient._get_json: the exception it leaves by, if any
GetJsonRaised(resp) ==
    IF resp.kind \in {"HTTPError", "URLError", "NotJSON", "NonObject"}
    THEN "OpenRouterError"
    ELSE IF resp.kind = "ReadError" THEN "OtherError"
    ELSE "none"

\* the loop of lines 138-171 run on each of the data arrays
NormalizedPayloads == [p \in 1..Len(PayloadList) |-> Normalize(PayloadList[p])]

\* the loop run on the default [] of models_payload.get("data", [])
NormalizedDefault == Normalize(<<>>)

\* the try block of lines 132-174: [raised, models]
TryFetch(resp) ==
    IF GetJsonRaised(resp) # "none"
    THEN [raised |-> GetJsonRaised(resp), models |-> <<>>]
    ELSE IF resp.kind = "NoData" THEN NormalizedDefault
    ELSE IF resp.kind = "DataNotArray"
         THEN [raised |-> "OpenRouterError", models |-> <<>>]
         ELSE NormalizedPayloads[resp.payload]

\* ------------------------------------------------------------- cache
\* self._cache: None, or CachedModelCatalog(timestamp, models)
NoCache == [some |-> FALSE, timestamp |-> 0, models |-> <<>>]
CachedModelCatalog(timestamp, models) ==
    [some |-> TRUE, timestamp |-> timestamp, models |-> models]

\* is_fresh comparing with <= instead of <
IsFresh_Inclusive(c, now, ttl_seconds) == c.some /\ (now - c.timestamp) <= ttl_seconds

\* is_fresh of lines 125-127
IsFresh(c, now, ttl_seconds) == c.some /\ (now - c.timestamp) < ttl_seconds

\* force_refresh is not looked at
NeedsFetch_IgnoreForce(c, now, ttl_seconds, force_refresh) ==
    ~(c.some /\ IsFresh(c, now, ttl_seconds))

\* whether list_models goes past the early return of lines 129-130
NeedsFetch(c, now, ttl_seconds, force_refresh) ==
    ~(c.some /\ IsFresh(c, now, ttl_seconds) /\ ~force_refresh)

\* an except clause that swallows the error when there is no cache
OnFetchError_Swallow(c, raised) ==
    IF raised = "OpenRouterError" THEN [raised |-> "none", ret |-> c.models]
    ELSE [raised |-> raised, ret |-> <<>>]

\* the except clause of lines 175-178: [raised, ret]
OnFetchError(c, raised) ==
    IF raised = "OpenRouterError" /\ c.some
    THEN [raised |-> "none", ret |-> c.models]
    ELSE [raised |-> raised, ret |-> <<>>]

\* a fetch that replaces the models of the stored snapshot in place and
\* leaves its timestamp
StoreCache_KeepStamp(c, now, models) ==
    CachedModelCatalog(IF c.some THEN c.timestamp ELSE now, models)

\* a fetch that extends the previous catalog instead of replacing it
StoreCache_Merge(c, now, models) == CachedModelCatalog(now, c.models \o models)

\* what a successful fetch leaves in self._cache, c being the slot's previous
\* content: line 173
StoreCache(c, now, models) == CachedModelCatalog(now, models)

\* one cache slot for all instances (a class attribute)
SlotUpdate_Shared(slots, c, new) == [x \in DOMAIN slots |-> new]

\* the assignment to self._cache of client c, line 173
SlotUpdate(slots, c, new) == [slots EXCEPT ![c] = new]

\* a failed fetch invalidates the cache slot
ListModelsCall_InvalidateOnError(c, now, ttl_seconds, force_refresh, resp) ==
    IF ~NeedsFetch(c, now, ttl_seconds, force_refresh)
    THEN [fetched |-> FALSE, requests |-> 0, fetchOk |-> FALSE, raised |-> "none",
          ret |-> c.models, cache |-> c]
    ELSE LET f == TryFetch(resp)
         IN  IF f.raised = "none"
             THEN [fetched |-> TRUE, requests |-> 1, fetchOk |-> TRUE, raised |-> "none",
                   ret |-> f.models, cache |-> StoreCache(c, now, f.models)]
             ELSE [fetched |-> TRUE, requests |-> 1, fetchOk |-> FALSE,
                   raised |-> OnFetchError(c, f.raised).raised,
                   ret |-> OnFetchError(c, f.raised).ret, cache |-> NoCache]

\* OpenRouterClient.list_models: [fetched, requests, fetchOk, raised, ret, cache];
\* fetched: the call went past the early return; requests: the _get_json
\* calls it made; fetchOk: the try block reached line 174
ListModelsCall(c, now, ttl_seconds, force_refresh, resp) ==
    IF ~NeedsFetch(c, now, ttl_seconds, force_refresh)
    THEN [fetched |-> FALSE, requests |-> 0, fetchOk |-> FALSE, raised |-> "none",
          ret |-> c.models, cache |-> c]
    ELSE LET f == TryFetch(resp)
         IN  IF f.raised = "none"
             THEN [fetched |-> TRUE, requests |-> 1, fetchOk |-> TRUE, raised |-> "none",
                   ret |-> f.models, cache |-> StoreCache(c, now, f.models)]
             ELSE [fetched |-> TRUE, requests |-> 1, fetchOk |-> FALSE,
                   raised |-> OnFetchError(c, f.raised).raised,
                   ret |-> OnFetchError(c, f.raised).ret, cache |-> c]

\* ------------------------------------------------------------- pricing
NoPricing ==
    [found |-> FALSE, model |-> <<>>, input_price_per_token_usd |-> 0,
     output_price_per_token_usd |-> 0, cached_input_price_per_token_usd |-> None]

PricingOf(item) ==
    [found |-> TRUE, model |-> item.id,
     input_price_per_token_usd |-> item.input_price_per_token_usd,
     output_price_per_token_usd |-> item.output_price_per_token_usd,
     cached_input_price_per_token_usd |-> item.cached_input_price_per_token_usd]

\* a comparison that ignores letter case
IdMatches_IgnoreCase(item, model) == Lower(item.id) = Lower(model)

\* item.id == model
IdMatches(item, model) == item.id = model

\* a lookup that falls back to the first entry when no id matches
FindPricing_FirstEntry(models, model) ==
    LET hits == {i \in 1..Len(models) : models[i].id = model}
    IN  IF hits # {}
        THEN PricingOf(models[CHOOSE i \in hits : \A j \in hits : i <= j])
        ELSE IF models # <<>> THEN PricingOf(models[1]) ELSE NoPricing

\* the loop of get_model_pricing, lines 192-203; found = FALSE is the raise
RECURSIVE FindPricing(_, _)
FindPricing(models, model) ==
    IF models = <<>> THEN NoPricing
    ELSE IF IdMatches(Head(models), model) THEN PricingOf(Head(models))
    ELSE FindPricing(Tail(models), model)

\* ------------------------------------------------------------- cost
\* the subtraction without the clamp
NonCachedInputTokens_NoClamp(usage) == usage.input_tokens - usage.cached_input_tokens

\* TokenUsage.non_cached_input_tokens
NonCachedInputTokens(usage) == Max(0, usage.input_tokens - usage.cached_input_tokens)

\* no fallback: without a cached-input price the cached tokens are free
EffectiveCachedPrice_NoFallback(input_price, cached_price) ==
    IF cached_price.some THEN cached_price.v ELSE 0

\* `cached or input`: a supplied price of 0 falls back too
EffectiveCachedPrice_Truthy(input_price, cached_price) ==
    IF cached_price.some /\ cached_price.v # 0 THEN cached_price.v ELSE input_price

\* cached_price of estimate_cost, lines 14-18
EffectiveCachedPrice(input_price, cached_price) ==
    IF cached_price.some THEN cached_price.v ELSE input_price

NoCost ==
    [input_cost_usd |-> 0, cached_input_cost_usd |-> 0, output_cost_usd |-> 0,
     total_cost_usd |-> 0]

\* estimate_cost
EstimateCost(usage, input_price, output_price, cached_price) ==
    LET input_cost == FMul(NonCachedInputTokens(usage), input_price)
        cached_input_cost ==
            FMul(usage.cached_input_tokens, EffectiveCachedPrice(input_price, cached_price))
        output_cost == FMul(usage.output_tokens, output_price)
    IN  [input_cost_usd |-> input_cost,
         cached_input_cost_usd |-> cached_input_cost,
         output_cost_usd |-> output_cost,
         total_cost_usd |-> FAdd(FAdd(input_cost, cached_input_cost), output_cost)]

Usage(i, o, c) == [input_tokens |-> i, output_tokens |-> o, cached_input_tokens |-> c]

\* ------------------------------------------------------------- inputs
Clients == {"c1", "c2"}

FailureKinds ==
    {"HTTPError", "URLError", "ReadError", "NotJSON", "NonObject", "NoData",
     "DataNotArray"}

Responses ==
    {Resp(k, 0) : k \in FailureKinds} \cup {Resp("Data", p) : p \in 1..Len(PayloadList)}

\* the responses met by the lookups (get_model_pricing, estimate_model_cost)
LookupResponses ==
    {Resp("URLError", 0), Resp("Data", 1), Resp("Data", 2), Resp("Data", 3)}

ModelIds == {Id_m, Id_M, Id_xy, Id_z}

SampleUsages == {Usage(2, 1, 1), Usage(1, 1, 2)}

\* the cache_ttl_seconds arguments clients are constructed with
TTLArgs == (-1)..MaxTTL

\* ------------------------------------------------------------- state
VARIABLES
    clock,      \* time.time()
    ttl,        \* self._cache_ttl_seconds of each client
    cache,      \* self._cache of each client
    last,       \* the most recent call: its arguments, what the transport
                \* answered, and how the call ended
    cin,        \* arguments of a direct call of a pure function
    cout,       \* its result
    thr,        \* the list_models call each concurrent caller is in: its
                \* position and its locals
    written     \* the locals of the caller whose line 173 ran last

vars == <<clock, ttl, cache, last, cin, cout, thr, written>>

NoUsage == Usage(0, 0, 0)

NoCall ==
    [op |-> "none", client |-> "c1", force |-> FALSE, model |-> <<>>,
     usage |-> NoUsage, now |-> 0, retAt |-> 0, resp |-> NoFetch,
     hadCache |-> FALSE, fetched |-> FALSE, requests |-> 0, fetchOk |-> FALSE,
     raised |-> "none",
     notFound |-> FALSE,
     retModels |-> <<>>, retPricing |-> NoPricing, retCost |-> NoCost]

Threads == {"t1", "t2"}

\* a caller outside list_models
IdleThread ==
    [pc |-> "idle", now |-> 0, cache |-> NoCache, raised |-> "none",
     models |-> <<>>, ret |-> <<>>, outcome |-> "none"]

NoThreads == [t \in Threads |-> IdleThread]

NoWrite == [some |-> FALSE, by |-> "t1", now |-> 0, models |-> <<>>]

NoCin ==
    [usage |-> NoUsage, input_price |-> 0, output_price |-> 0, cached_price |-> None]

\* OpenRouterClient.__init__, line 63
ClampTTL(cache_ttl_seconds) == Max(0, cache_ttl_seconds)

\* OpenRouterClient.__init__, line 64
InitialCache == NoCache

Init ==
    /\ clock = 0
    /\ \E a \in TTLArgs : ttl = [c \in Clients |-> ClampTTL(a)]
    /\ cache = [c \in Clients |-> InitialCache]
    /\ last = NoCall
    /\ cin = NoCin
    /\ cout = [done |-> FALSE, cost |-> NoCost]
    /\ thr = NoThreads
    /\ written = NoWrite

\* the part of `last` every call of client c fills in the same way
CallRecord(c, op, force, model, usage, resp, d, r) ==
    [NoCall EXCEPT
        !.op = op, !.client = c, !.force = force, !.model = model,
        !.usage = usage, !.now = clock, !.retAt = clock + d, !.resp = resp,
        !.hadCache = cache[c].some, !.fetched = r.fetched,
        !.requests = r.requests, !.fetchOk = r.fetchOk,
        !.raised = r.raised]

\* a request is made exactly when the call goes past the early return, and
\* only a request takes time
Transport(c, force, resp, d) ==
    /\ clock + d <= MaxClock
    /\ IF NeedsFetch(cache[c], clock, ttl[c], force)
       THEN resp # NoFetch
       ELSE resp = NoFetch /\ d = 0

\* client.list_models(force_refresh=force)
ListModels(c, force, resp, d) ==
    /\ Transport(c, force, resp, d)
    /\ \E r \in {ListModelsCall(cache[c], clock, ttl[c], force, resp)} :
          /\ cache' = SlotUpdate(cache, c, r.cache)
          /\ last' = [CallRecord(c, "list_models", force, <<>>, NoUsage, resp, d, r)
                         EXCEPT !.retModels = r.ret]
    /\ clock' = clock + d
    /\ UNCHANGED <<ttl, cin, cout, thr, written>>

\* get_model_pricing on the outcome r of its list_models() call:
\* [raised, notFound, pricing]
GetModelPricingCall(r, model) ==
    IF r.raised # "none"
    THEN [raised |-> r.raised, notFound |-> FALSE, pricing |-> NoPricing]
    ELSE LET p == FindPricing(r.ret, model)
         IN  IF p.found
             THEN [raised |-> "none", notFound |-> FALSE, pricing |-> p]
             ELSE [raised |-> "OpenRouterError", notFound |-> TRUE,
                   pricing |-> NoPricing]

\* client.get_model_pricing(model)
GetModelPricing(c, model, resp, d) ==
    /\ Transport(c, FALSE, resp, d)
    /\ \E r \in {ListModelsCall(cache[c], clock, ttl[c], FALSE, resp)} :
       \E g \in {GetModelPricingCall(r, model)} :
          /\ cache' = SlotUpdate(cache, c, r.cache)
          /\ last' = [CallRecord(c, "get_model_pricing", FALSE, model, NoUsage,
                                 resp, d, r)
                         EXCEPT !.raised = g.raised, !.notFound = g.notFound,
                                !.retModels = r.ret, !.retPricing = g.pricing]
    /\ clock' = clock + d
    /\ UNCHANGED <<ttl, cin, cout, thr, written>>

\* estimate_model_cost on the outcome g of its get_model_pricing call
EstimateModelCostCall(g, usage) ==
    IF g.raised # "none" THEN NoCost
    ELSE EstimateCost(usage, g.pricing.input_price_per_token_usd,
                      g.pricing.output_price_per_token_usd,
                      g.pricing.cached_input_price_per_token_usd)

\* client.estimate_model_cost(model=model, usage=usage)
EstimateModelCost(c, model, usage, resp, d) ==
    /\ Transport(c, FALSE, resp, d)
    /\ \E r \in {ListModelsCall(cache[c], clock, ttl[c], FALSE, resp)} :
       \E g \in {GetModelPricingCall(r, model)} :
          /\ cache' = SlotUpdate(cache, c, r.cache)
          /\ last' = [CallRecord(c, "estimate_model_cost", FALSE, model, usage,
                                 resp, d, r)
                         EXCEPT !.raised = g.raised, !.notFound = g.notFound,
                                !.retModels = r.ret, !.retPricing = g.pricing,
                                !.retCost = EstimateModelCostCall(g, usage)]
    /\ clock' = clock + d
    /\ UNCHANGED <<ttl, cin, cout, thr, written>>

\* time passes between calls
Tick ==
    /\ clock < MaxClock
    /\ clock' = clock + 1
    /\ UNCHANGED <<ttl, cache, last, cin, cout, thr, written>>

FetchTimes == 0..MaxFetchTime

\* the catalog client driven through list_models
Next ==
    \/ \E force \in BOOLEAN, resp \in Responses \cup {NoFetch}, d \in FetchTimes :
          ListModels("c1", force, resp, d)
    \/ Tick

Spec == Init /\ [][Next]_vars

\* the catalog client driven through its lookups, each of which makes its own
\* list_models() call
NextLookup ==
    \/ \E model \in ModelIds, resp \in LookupResponses \cup {NoFetch}, d \in FetchTimes :
          GetModelPricing("c1", model, resp, d)
    \/ \E model \in ModelIds, usage \in SampleUsages,
          resp \in LookupResponses \cup {NoFetch}, d \in FetchTimes :
          EstimateModelCost("c1", model, usage, resp, d)
    \/ Tick

SpecLookup == Init /\ [][NextLookup]_vars

\* estimate_cost called directly
CostInputs ==
    [usage : {Usage(i, o, c) : i \in 0..MaxTokens, o \in 0..MaxTokens, c \in 0..MaxTokens},
     input_price : 0..MaxPrice,
     output_price : 0..MaxPrice,
     cached_price : {None} \cup {Some(x) : x \in 0..MaxPrice}]

InitCost ==
    /\ clock = 0
    /\ ttl = [c \in Clients |-> ClampTTL(0)]
    /\ cache = [c \in Clients |-> InitialCache]
    /\ last = NoCall
    /\ cin \in CostInputs
    /\ cout = [done |-> FALSE, cost |-> NoCost]
    /\ thr = NoThreads
    /\ written = NoWrite

CallEstimateCost ==
    /\ ~cout.done
    /\ cout' = [done |-> TRUE,
                cost |-> EstimateCost(cin.usage, cin.input_price, cin.output_price,
                                      cin.cached_price)]
    /\ UNCHANGED <<clock, ttl, cache, last, cin, thr, written>>

NextCost == CallEstimateCost

SpecCost == InitCost /\ [][NextCost]_vars

\* ------------------------------------------------------------- claims
\* a step that is a call (Tick leaves `last` alone; a call changes it or
\* changes nothing at all)
IsCall == last' # last

\* the call recorded in `last` made a request and the try block did not
\* complete
FetchFailed(l) == l.fetched /\ ~l.fetchOk

\* C1: whenever the cache slot is populated and a list_models call attempts
\* a fetch that fails, the call does not raise, returns exactly the cached
\* model sequence, and leaves the cache slot unchanged.
C1_StaleFallback ==
    [][ (IsCall /\ last'.op = "list_models" /\ cache["c1"].some /\ FetchFailed(last'))
        => (/\ last'.raised = "none"
            /\ last'.retModels = cache["c1"].models
            /\ cache' = cache) ]_vars

\* C2: when the cache slot is Empty and a list_models call's fetch fails,
\* the failure is raised to the caller and the slot is still Empty.
C2_EmptyCacheFailure ==
    (last.op = "list_models" /\ ~last.hadCache /\ FetchFailed(last))
    => (last.raised # "none" /\ last.retModels = <<>> /\ ~cache["c1"].some)

C2_Witness ==
    /\ last.op = "list_models" /\ ~last.hadCache /\ FetchFailed(last)
    /\ last.raised = "OpenRouterError"
    /\ last.resp.kind = "DataNotArray"

\* C3 as stated: a list_models() call made less than cache_ttl_seconds after
\* a list_models call returned from a successful fetch (of a response that
\* carries a data array) makes no request and returns the sequence the fetch
\* returned, whatever cache_ttl_seconds is and however long the fetch took.
C3_FreshAfterFetch ==
    [][ (/\ last.op = "list_models" /\ last.fetchOk /\ last.resp.kind = "Data"
         /\ IsCall /\ last'.op = "list_models" /\ ~last'.force
         /\ last'.now - last.retAt < ttl["c1"])
        => (~last'.fetched /\ last'.retModels = last.retModels) ]_vars

\* C3, amended: a successful fetch stamps the cache with the time its call
\* started; the next list_models() call makes no request, returns the
\* sequence the fetch returned and leaves the slot alone if it starts less
\* than cache_ttl_seconds after that stamp, and makes a request otherwise.
C3_FreshWithinTTLOfStamp ==
    [][ (/\ last.op = "list_models" /\ last.fetchOk
         /\ IsCall /\ last'.op = "list_models" /\ ~last'.force)
        => IF last'.now - last.now < ttl["c1"]
           THEN /\ ~last'.fetched
                /\ last'.raised = "none"
                /\ last'.retModels = last.retModels
                /\ cache' = cache
           ELSE last'.fetched ]_vars

\* a read served from the cache in the instant its catalog was stamped
C3_Witness ==
    /\ last.op = "list_models" /\ ~last.force /\ ~last.fetched
    /\ last.hadCache /\ last.retModels # <<>>
    /\ last.retModels = cache["c1"].models
    /\ last.now = cache["c1"].timestamp

\* C4: after a successful fetch the cache slot holds exactly the normalized
\* list of that response, stamped with the time read by the fetching call,
\* and the call returned the sequence the slot holds.
C4_WholesaleReplace ==
    (last.op = "list_models" /\ last.fetchOk)
    => (/\ cache["c1"].some
        /\ cache["c1"].models =
              (IF last.resp.kind = "Data"
               THEN Normalize(PayloadList[last.resp.payload]).models ELSE <<>>)
        /\ cache["c1"].timestamp = last.now
        /\ last.now <= last.retAt /\ last.retAt <= clock
        /\ last.raised = "none"
        /\ last.retModels = cache["c1"].models)

\* a populated slot replaced by a different, non-empty catalog
C4_Witness ==
    /\ last.op = "list_models" /\ last.fetchOk /\ last.hadCache
    /\ last.resp = Resp("Data", 3)
    /\ Len(cache["c1"].models) = 2
    /\ cache["c1"].timestamp > 0

\* C10: every response that is not a JSON object carrying a data array is
\* a fetch failure of the one error kind: the cache slot is neither replaced
\* nor emptied, a populated slot is served, and on an Empty slot
\* OpenRouterError is raised.
C10_ShapeViolationsAreFailures ==
    [][ (IsCall /\ last'.op = "list_models" /\ last'.fetched
         /\ last'.resp.kind \in FailureKinds)
        => (/\ cache' = cache
            /\ IF cache["c1"].some
               THEN last'.raised = "none" /\ last'.retModels = cache["c1"].models
               ELSE last'.raised = "OpenRouterError") ]_vars

\* the call recorded in `last` is a lookup whose list_models() returned
Resolved(l) ==
    /\ l.op \in {"get_model_pricing", "estimate_model_cost"}
    /\ (l.raised = "none" \/ l.notFound)

\* positions of the catalog the lookup resolved against whose id is exactly
\* the requested one
Hits(l) == {i \in 1..Len(l.retModels) : l.retModels[i].id = l.model}

FirstHit(l) == CHOOSE i \in Hits(l) : \A j \in Hits(l) : i <= j

\* C5: get_model_pricing returns the prices of the first entry, in catalog
\* order, whose id equals the requested id exactly; entries that differ in
\* letter case do not match.
C5_FirstExactMatch ==
    (Resolved(last) /\ Hits(last) # {})
    => LET e == last.retModels[FirstHit(last)]
       IN  /\ last.raised = "none"
           /\ last.retPricing.found
           /\ last.retPricing.model = last.model
           /\ last.retPricing.input_price_per_token_usd = e.input_price_per_token_usd
           /\ last.retPricing.output_price_per_token_usd = e.output_price_per_token_usd
           /\ last.retPricing.cached_input_price_per_token_usd =
                 e.cached_input_price_per_token_usd

\* the requested id occurs twice, after an entry that differs from it in
\* letter case only, and the two occurrences carry different prices
C5_Witness ==
    /\ Resolved(last) /\ last.op = "get_model_pricing"
    /\ Hits(last) = {3, 4}
    /\ Lower(last.retModels[1].id) = Lower(last.model)
    /\ last.retModels[3].input_price_per_token_usd
          # last.retModels[4].input_price_per_token_usd
    /\ last.retPricing.found

\* C6: whatever the cache state the catalog came from, get_model_pricing
\* raises not-found when the catalog has no entry with exactly the requested
\* id, and a pricing record it returns is for the requested id.
C6_NotFoundNeverMasked ==
    Resolved(last)
    => IF Hits(last) = {}
       THEN last.raised = "OpenRouterError" /\ last.notFound /\ ~last.retPricing.found
       ELSE last.raised = "none" /\ last.retPricing.model = last.model

\* not-found against a non-empty catalog served by stale-fallback
C6_Witness ==
    /\ Resolved(last) /\ last.notFound
    /\ last.retModels # <<>>
    /\ FetchFailed(last) /\ last.hadCache

\* C7: for non-negative token counts and prices, the three costs are
\* max(0, input - cached) * input price, cached * effective cached price and
\* output * output price, and the total is their sum.
C7_CostFormula ==
    cout.done
    => LET u == cin.usage
           nonCached == IF u.input_tokens - u.cached_input_tokens > 0
                        THEN u.input_tokens - u.cached_input_tokens ELSE 0
           eff == IF cin.cached_price.some THEN cin.cached_price.v ELSE cin.input_price
       IN  /\ cout.cost.input_cost_usd = nonCached * cin.input_price
           /\ cout.cost.cached_input_cost_usd = u.cached_input_tokens * eff
           /\ cout.cost.output_cost_usd = u.output_tokens * cin.output_price
           /\ cout.cost.total_cost_usd =
                 cout.cost.input_cost_usd + cout.cost.cached_input_cost_usd
                 + cout.cost.output_cost_usd

\* more cached tokens than input tokens, at a positive input price
C7_Witness ==
    /\ cout.done
    /\ cin.usage.cached_input_tokens > cin.usage.input_tokens
    /\ cin.usage.input_tokens > 0
    /\ cin.input_price > 0
    /\ cout.cost.input_cost_usd = 0
    /\ cout.cost.total_cost_usd > 0

\* C8: without a cached-input price the cached tokens are charged at the
\* input price; with one, 0 included, they are charged at that price.
C8_PriceFallback ==
    cout.done
    => IF cin.cached_price.some
       THEN cout.cost.cached_input_cost_usd =
               cin.usage.cached_input_tokens * cin.cached_price.v
       ELSE cout.cost.cached_input_cost_usd =
               cin.usage.cached_input_tokens * cin.input_price

\* a supplied cached-input price of 0 beside a positive input price
C8_Witness ==
    /\ cout.done
    /\ cin.cached_price = Some(0)
    /\ cin.input_price > 0
    /\ cin.usage.cached_input_tokens > 0
    /\ cout.cost.cached_input_cost_usd = 0

\* the raw item an estimate_model_cost call that fetched resolved to: the
\* first item of the response that is kept and carries the requested id
RawHits(l) ==
    LET raw == PayloadList[l.resp.payload]
    IN  {i \in 1..Len(raw) : ~Skipped(raw[i]) /\ raw[i].id.s = l.model}

RawHit(l) ==
    PayloadList[l.resp.payload][CHOOSE i \in RawHits(l) : \A j \in RawHits(l) : i <= j]

\* C9: an item without cached_prompt gives an entry without cached-input
\* price, and estimate_model_cost bills that model's cached tokens at the
\* prompt price; a cached_prompt that is given goes through the parsing of
\* the other prices, unparsable and negative values becoming 0.
C9_CachedPriceNormalization ==
    (/\ last.op = "estimate_model_cost" /\ last.raised = "none"
     /\ last.fetchOk /\ last.resp.kind = "Data")
    => LET item == RawHit(last)
           given == item.pricingIsDict /\ item.cached_prompt.t \notin {"absent", "null"}
           cp == last.retPricing.cached_input_price_per_token_usd
       IN  /\ RawHits(last) # {}
           /\ ~given =>
                 /\ cp = None
                 /\ last.retCost.cached_input_cost_usd =
                       last.usage.cached_input_tokens
                       * last.retPricing.input_price_per_token_usd
           /\ given =>
                 /\ cp.some
                 /\ cp.v = ParsePrice(item.cached_prompt)
                 /\ (item.cached_prompt.t \in {"str", "obj"}
                     \/ (item.cached_prompt.t \in {"num", "numstr"}
                         /\ item.cached_prompt.n < 0)) => cp.v = 0
                 /\ (item.cached_prompt.t \in {"num", "numstr"}
                     /\ item.cached_prompt.n >= 0) => cp.v = item.cached_prompt.n
                 /\ last.retCost.cached_input_cost_usd =
                       last.usage.cached_input_tokens * cp.v

\* cached tokens of a model whose item has no cached_prompt, billed at a
\* positive prompt price
C9_Witness ==
    /\ last.op = "estimate_model_cost" /\ last.raised = "none"
    /\ last.fetchOk /\ last.resp.kind = "Data"
    /\ RawHit(last).cached_prompt = JAbsent
    /\ last.retPricing.cached_input_price_per_token_usd = None
    /\ last.usage.cached_input_tokens > 0
    /\ last.retCost.cached_input_cost_usd > 0


\* ---------------------------------------------------------------- C11, C12
\* the ids of the items of a data array that are structured records with a
\* non-empty string id, in the order of the array
KeptIds(raw_data) ==
    LET kept == SelectSeq(raw_data,
                    LAMBDA it : it.isDict /\ it.id.t = "str" /\ Len(it.id.s) > 0)
    IN  [i \in 1..Len(kept) |-> kept[i].id.s]

\* C11: a list_models call whose response carries a data array succeeds
\* whatever the items contain, and returns one entry for every item that is a
\* structured record with a non-empty string id, in the order of the response,
\* and nothing for the other items.
C11_BestEffortNormalization ==
    (last.op = "list_models" /\ last.fetched /\ last.resp.kind = "Data") =>
        /\ last.raised = "none"
        /\ [i \in 1..Len(last.retModels) |-> last.retModels[i].id]
               = KeptIds(PayloadList[last.resp.payload])

\* a float that compares >= 0
NonNegative(x) == x # NaN /\ (x = Inf \/ x >= 0)

\* C12: every entry held in a cache slot has non-negative prompt and
\* completion prices and a non-negative context window.
C12_CachedEntriesNonNegative ==
    \A c \in Clients : \A i \in 1..Len(cache[c].models) :
        LET e == cache[c].models[i]
        IN  /\ NonNegative(e.input_price_per_token_usd)
            /\ NonNegative(e.output_price_per_token_usd)
            /\ NonNegative(e.context_window)


\* ------------------------------------------------- provider inference alone
MaxIdLen == 3

\* the characters the short identifiers are made of
IdChars == {"a", "B", "/", " "}

\* identifiers that meet the fixed-prefix rules, and longer free ones
LongIds ==
    {<<"o","p","e","n","a","i","/","x">>,
     <<"O","p","e","n","A","I","/","x">>,
     <<"g","o","o","g","l","e","/","x">>,
     <<"a","n","t","h","r","o","p","i","c","/","x">>,
     <<"m","i","s","t","r","a","l","a","i","/","x">>,
     <<"m","i","s","t","r","a","l">>,
     <<"m","e","t","a","-","l","l","a","m","a","/","x">>,
     <<"m","e","t","a","/","x">>,
     <<"c","o","h","e","r","e","/","x">>,
     <<"d","e","e","p","s","e","e","k","/","x">>,
     <<"q","w","e","n","/","x">>,
     <<"m","i","c","r","o","s","o","f","t","/","x">>,
     <<"p","e","r","p","l","e","x","i","t","y","/","x">>,
     <<"m","e","t","a","l","l","i","c","/","x">>,
     <<"C","u","s","t","o","m","-","V","e","n","d","o","r","/","x">>,
     <<"s","t","a","n","d","a","l","o","n","e">>}

\* the non-empty identifiers _guess_provider is applied to
ProviderIds == LongIds \cup UNION {[1..n -> IdChars] : n \in 1..MaxIdLen}

NoProvider == [raised |-> "none", v |-> <<>>]

InitProvider ==
    /\ clock = 0
    /\ ttl = [c \in Clients |-> ClampTTL(0)]
    /\ cache = [c \in Clients |-> InitialCache]
    /\ last = NoCall
    /\ cin \in [id : ProviderIds]
    /\ cout = [done |-> FALSE, provider |-> NoProvider]
    /\ thr = NoThreads
    /\ written = NoWrite

\* a direct call of _guess_provider(model_id=cin.id, name=cin.id)
CallGuessProvider ==
    /\ ~cout.done
    /\ cout' = [done |-> TRUE, provider |-> GuessProvider(cin.id, cin.id)]
    /\ UNCHANGED <<clock, ttl, cache, last, cin, thr, written>>

NextProvider == CallGuessProvider

SpecProvider == InitProvider /\ [][NextProvider]_vars

\* -------------------------------------------------------------------- C13
\* the fixed-prefix rules of lines 92-111, in the order they are tested
ProviderRules ==
    << <<<<"o","p","e","n","a","i","/">>, Str_OpenAI>>,
       <<<<"g","o","o","g","l","e","/">>, Str_Google>>,
       <<<<"a","n","t","h","r","o","p","i","c","/">>, Str_Anthropic>>,
       <<<<"m","i","s","t","r","a","l">>, Str_Mistral>>,
       <<<<"m","e","t","a","-","l","l","a","m","a","/">>, Str_Meta>>,
       <<<<"m","e","t","a","/">>, Str_Meta>>,
       <<<<"c","o","h","e","r","e","/">>, Str_Cohere>>,
       <<<<"d","e","e","p","s","e","e","k","/">>, Str_DeepSeek>>,
       <<<<"q","w","e","n","/">>, Str_Alibaba>>,
       <<<<"m","i","c","r","o","s","o","f","t","/">>, Str_Microsoft>>,
       <<<<"p","e","r","p","l","e","x","i","t","y","/">>, Str_Perplexity>> >>

\* the rules whose prefix the lowercased identifier starts with
MatchingRules(id) ==
    {k \in 1..Len(ProviderRules) : StartsWith(Lower(id), ProviderRules[k][1])}

\* the text with its first character capitalized and the rest unchanged
Capitalized(text) == <<UpperChar(text[1])>> \o Tail(text)

\* C13: the provider of a non-empty identifier is that of the first
\* fixed-prefix rule it matches; else, when it contains a "/", the text before
\* the first "/" with its first character capitalized and the rest of that
\* text unchanged; else "Other"; and every non-empty identifier gets a provider.
C13_ProviderInference ==
    cout.done =>
        /\ cout.provider.raised = "none"
        /\ IF MatchingRules(cin.id) # {}
           THEN LET k == CHOOSE k \in MatchingRules(cin.id) :
                             \A j \in MatchingRules(cin.id) : k <= j
                IN  cout.provider.v = ProviderRules[k][2]
           ELSE IF HasSlash(cin.id)
                THEN BeforeSlash(cin.id) # <<>> =>
                         cout.provider.v = Capitalized(BeforeSlash(cin.id))
                ELSE cout.provider.v = Str_Other


\* ---------------------------------------------------- text token estimate
MaxTextLen == 5
MaxRatioNum == 3

\* A chars_per_token float: num/den exactly (den a power of two), or one of
\* the two special floats
Ratio(num, den) == [kind |-> "fin", num |-> num, den |-> den]
RatioInf == [kind |-> "inf", num |-> 1, den |-> 1]
RatioNaN == [kind |-> "nan", num |-> 0, den |-> 1]

\* the default of the chars_per_token parameter and the fallback of line 11
DefaultCharsPerToken == Ratio(4, 1)

\* r > 0 on floats
RatioGtZero(r) == r.kind = "inf" \/ (r.kind = "fin" /\ r.num > 0)

\* math.ceil(n / r) for an integer n >= 0 and a float r # 0
CeilDiv(n, r) ==
    IF r.kind = "inf" THEN 0
    ELSE IF r.num > 0
         THEN (n * r.den + r.num - 1) \div r.num
         ELSE 0 - ((n * r.den) \div (0 - r.num))

\* chars_per_token if chars_per_token > 0 or chars_per_token < 0 else 4.0
EffectiveCharsPerToken_NonZero(chars_per_token) ==
    IF chars_per_token.kind = "nan" \/ (chars_per_token.kind = "fin" /\ chars_per_token.num = 0)
    THEN DefaultCharsPerToken
    ELSE chars_per_token

\* line 11: chars_per_token if chars_per_token > 0 else 4.0
EffectiveCharsPerToken(chars_per_token) ==
    IF RatioGtZero(chars_per_token) THEN chars_per_token ELSE DefaultCharsPerToken

\* estimate_tokens_from_text
EstimateTokensFromText(text, chars_per_token) ==
    LET stripped == Strip(text)
    IN  IF stripped = <<>> THEN 0
        ELSE Max(1, CeilDiv(Len(stripped), EffectiveCharsPerToken(chars_per_token)))

TextChars == {" ", "a"}

\* the texts and ratios estimate_tokens_from_text is called with
Texts == {<<>>} \cup UNION {[1..n -> TextChars] : n \in 1..MaxTextLen}
RatioArgs ==
    {Ratio(n, d) : n \in (-1)..MaxRatioNum, d \in {1, 2}} \cup {RatioInf, RatioNaN}

InitTokens ==
    /\ clock = 0
    /\ ttl = [c \in Clients |-> ClampTTL(0)]
    /\ cache = [c \in Clients |-> InitialCache]
    /\ last = NoCall
    /\ cin \in [text : Texts, chars_per_token : RatioArgs]
    /\ cout = [done |-> FALSE, tokens |-> 0]
    /\ thr = NoThreads
    /\ written = NoWrite

\* a direct call of estimate_tokens_from_text(cin.text, chars_per_token=...)
CallEstimateTokensFromText ==
    /\ ~cout.done
    /\ cout' = [done |-> TRUE,
                tokens |-> EstimateTokensFromText(cin.text, cin.chars_per_token)]
    /\ UNCHANGED <<clock, ttl, cache, last, cin, thr, written>>

NextTokens == CallEstimateTokensFromText

SpecTokens == InitTokens /\ [][NextTokens]_vars

\* -------------------------------------------------------------------- C14
\* the characters of the text between its first and last non-blank ones
TrimmedLen(text) ==
    LET solid == {i \in 1..Len(text) : text[i] # " "}
    IN  IF solid = {} THEN 0
        ELSE 1 + (CHOOSE i \in solid : \A j \in solid : j <= i)
               - (CHOOSE i \in solid : \A j \in solid : i <= j)

\* C14: estimate_tokens_from_text returns 0 when the trimmed text is empty,
\* and otherwise the least integer that is at least len(trimmed text) / ratio
\* and at least 1, where ratio is chars_per_token when that is positive and
\* 4.0 when it is zero or negative.
C14_TextEstimate ==
    cout.done =>
        LET n == TrimmedLen(cin.text)
            r == cin.chars_per_token
            \* k >= n / (num/den) for a positive fraction num/den
            AtLeast(k, num, den) == k * num >= n * den
            LeastFor(num, den) ==
                CHOOSE k \in 1..(n * den + 1) :
                    /\ AtLeast(k, num, den)
                    /\ \A j \in 1..(k - 1) : ~AtLeast(j, num, den)
        IN  IF n = 0 THEN cout.tokens = 0
            ELSE /\ cout.tokens >= 1
                 /\ r.kind = "inf" => cout.tokens = 1
                 /\ (r.kind = "fin" /\ r.num > 0) =>
                        cout.tokens = LeastFor(r.num, r.den)
                 /\ (r.kind = "fin" /\ r.num <= 0) => cout.tokens = LeastFor(4, 1)

\* the five characters "a aaa" with the ratio -0.5: 4.0 is used and 5 / 4.0 is
\* rounded up to 2
C14_Witness ==
    /\ cout.done
    /\ cin.chars_per_token = Ratio(-1, 2)
    /\ cin.text = <<"a", " ", "a", "a", "a">>
    /\ cout.tokens = 2


\* ------------------------------------------- two clients, every operation
\* what the endpoint answers in the runs that mix the operations
MixedResponses ==
    {Resp("URLError", 0), Resp("ReadError", 0), Resp("Data", 1), Resp("Data", 4)}

MixedModelIds == {Id_m}

MixedUsages == {Usage(2, 1, 1)}

\* two client instances driven through list_models and the lookups, in any
\* order, one call at a time
NextClients ==
    \/ \E c \in Clients, force \in BOOLEAN, resp \in MixedResponses \cup {NoFetch},
          d \in FetchTimes :
          ListModels(c, force, resp, d)
    \/ \E c \in Clients, model \in MixedModelIds,
          resp \in MixedResponses \cup {NoFetch}, d \in FetchTimes :
          GetModelPricing(c, model, resp, d)
    \/ \E c \in Clients, model \in MixedModelIds, usage \in MixedUsages,
          resp \in MixedResponses \cup {NoFetch}, d \in FetchTimes :
          EstimateModelCost(c, model, usage, resp, d)
    \/ Tick

SpecClients == Init /\ [][NextClients]_vars


\* -------------------------------------------------------------------- C15
\* C15: a call makes a request exactly when, at the time of the call, the
\* cache slot of its client is Empty, or the age of the slot is at least the
\* TTL, or force_refresh is true; and no call makes more than one request.
C15_FetchIffStaleOrForced ==
    [][ IsCall =>
          LET slot == cache[last'.client]
          IN  /\ last'.requests <= 1
              /\ (last'.requests = 1) <=>
                     \/ ~slot.some
                     \/ (clock - slot.timestamp) >= ttl[last'.client]
                     \/ last'.force ]_vars

\* a forced list_models on a slot of age 0 under a positive TTL: the one
\* request is made, and fails
C15_Witness ==
    /\ last.op = "list_models" /\ last.force /\ last.hadCache
    /\ ttl[last.client] > 0
    /\ cache[last.client].timestamp = last.now
    /\ last.requests = 1 /\ ~last.fetchOk

\* -------------------------------------------------------------------- C18
\* C18: every client is constructed with an Empty cache slot, and a call on
\* one client, whether it succeeds or fails, leaves the slot of every other
\* client as it was.
C18_ClientIsolation ==
    /\ \A c \in Clients : ~cache[c].some
    /\ [][ \A c \in Clients :
             (IsCall /\ last'.client = c) =>
                 \A o \in Clients \ {c} : cache'[o] = cache[o] ]_vars

\* both slots populated, with different catalogs, the second by the call
\* just made
C18_Witness ==
    /\ cache["c1"].some /\ cache["c2"].some
    /\ cache["c1"].models # cache["c2"].models
    /\ last.client = "c2" /\ last.fetchOk

\* -------------------------------------------------------------------- C19
\* C19: in a run of calls made one at a time, a populated cache slot stays
\* populated and its timestamp never decreases, and a slot changes only in a
\* step whose list_models fetch succeeded (so not in a fresh read, a failed
\* fetch, or the search of a lookup).
C19_SlotMonotone ==
    [][ \A c \in Clients :
          /\ cache[c].some =>
                 (cache'[c].some /\ cache'[c].timestamp >= cache[c].timestamp)
          /\ cache'[c] # cache[c] =>
                 (IsCall /\ last'.client = c /\ last'.fetchOk) ]_vars

\* a lookup on a populated slot whose forced-by-age fetch failed and whose
\* model is not in the stale catalog: the slot is the older one still
C19_Witness ==
    /\ last.op = "get_model_pricing" /\ last.hadCache
    /\ last.fetched /\ ~last.fetchOk /\ last.notFound
    /\ cache[last.client].some /\ cache[last.client].timestamp < last.now


\* ------------------------------------------ concurrent list_models callers
\* what the endpoint answers to the concurrent callers
ThreadResponses == {Resp("URLError", 0), Resp("Data", 1), Resp("Data", 4)}

\* lines 123-130 of a list_models(force_refresh=force) call by thread t on
\* client c1: `now` and the slot are read into locals, and the call either
\* returns the fresh snapshot or goes on to fetch
Enter(t, force) ==
    /\ thr[t].pc = "idle"
    /\ \E snap \in {cache["c1"]} :
          thr' = [thr EXCEPT ![t] =
                    IF NeedsFetch(snap, clock, ttl["c1"], force)
                    THEN [IdleThread EXCEPT !.pc = "fetch", !.now = clock,
                                            !.cache = snap]
                    ELSE [IdleThread EXCEPT !.now = clock, !.cache = snap,
                                            !.ret = snap.models,
                                            !.outcome = "returned"]]
    /\ UNCHANGED <<clock, ttl, cache, last, cin, cout, written>>

\* lines 133-171: the request and the normalization, on locals only
Fetch(t, resp) ==
    /\ thr[t].pc = "fetch"
    /\ \E f \in {TryFetch(resp)} :
          thr' = [thr EXCEPT ![t] =
                    IF f.raised = "none"
                    THEN [@ EXCEPT !.pc = "store", !.models = f.models]
                    ELSE [@ EXCEPT !.pc = "except", !.raised = f.raised]]
    /\ UNCHANGED <<clock, ttl, cache, last, cin, cout, written>>

\* lines 173-174: the one assignment to self._cache, and the return
Store(t) ==
    /\ thr[t].pc = "store"
    /\ cache' = SlotUpdate(cache, "c1",
                           StoreCache(cache["c1"], thr[t].now, thr[t].models))
    /\ written' = [some |-> TRUE, by |-> t, now |-> thr[t].now,
                   models |-> thr[t].models]
    /\ thr' = [thr EXCEPT ![t] = [@ EXCEPT !.pc = "idle", !.ret = thr[t].models,
                                           !.outcome = "returned"]]
    /\ UNCHANGED <<clock, ttl, last, cin, cout>>

\* lines 175-178: the failure is handled with the local `cache` of line 124
Except(t) ==
    /\ thr[t].pc = "except"
    /\ \E r \in {OnFetchError(thr[t].cache, thr[t].raised)} :
          thr' = [thr EXCEPT ![t] =
                    [@ EXCEPT !.pc = "idle", !.raised = r.raised, !.ret = r.ret,
                              !.outcome = IF r.raised = "none" THEN "returned"
                                          ELSE "raised"]]
    /\ UNCHANGED <<clock, ttl, cache, last, cin, cout, written>>

\* two threads calling list_models on one client, without a lock
NextThreads ==
    \/ \E t \in Threads, force \in BOOLEAN : Enter(t, force)
    \/ \E t \in Threads, resp \in ThreadResponses : Fetch(t, resp)
    \/ \E t \in Threads : Store(t)
    \/ \E t \in Threads : Except(t)
    \/ Tick

SpecThreads == Init /\ [][NextThreads]_vars

\* -------------------------------------------------------------------- C16
\* C16: with concurrent list_models callers the cache slot is at every
\* moment Empty or the timestamp and the models of one and the same call, the
\* one whose store ran last; in particular so when every call has finished.
C16_SelfConsistentSnapshot ==
    /\ cache["c1"].some <=> written.some
    /\ cache["c1"].some =>
          /\ cache["c1"].timestamp = written.now
          /\ cache["c1"].models = written.models

\* both calls have finished; t2 started later and fetched another catalog,
\* but t1 stored last: the slot is t1's snapshot, timestamp and models
C16_Witness ==
    /\ \A t \in Threads : thr[t].pc = "idle" /\ thr[t].outcome = "returned"
    /\ thr["t2"].models # <<>> /\ thr["t1"].models # <<>>
    /\ thr["t2"].models # thr["t1"].models
    /\ thr["t2"].now > thr["t1"].now
    /\ written.by = "t1"
    /\ cache["c1"] = CachedModelCatalog(thr["t1"].now, thr["t1"].models)

\* -------------------------------------------------------------------- C17
\* C17: with concurrent list_models callers, a call whose fetch failed
\* returns instead of raising whenever the cache slot is populated at the
\* moment the failure is handled, and what it returns is the content the
\* slot has at that moment.
C17_ConcurrentStaleFallback ==
    [][ \A t \in Threads :
          (thr[t].pc = "except" /\ thr'[t].pc = "idle" /\ cache["c1"].some)
          => (thr'[t].outcome = "returned"
              /\ thr'[t].ret = cache["c1"].models) ]_vars


\* -------------------------------------------------------------------- C20
\* C20: without a cached-input price, when 0 <= cached_input_tokens <=
\* input_tokens the total is input_tokens * input_price + output_tokens *
\* output_price, the same for every such cached_input_tokens; and when
\* cached_input_tokens > input_tokens the input side is billed for
\* cached_input_tokens tokens, more than input_tokens.
C20_CachedSplitIsNeutral ==
    (cout.done /\ ~cin.cached_price.some) =>
        LET u == cin.usage
            billed == cout.cost.input_cost_usd + cout.cost.cached_input_cost_usd
        IN  IF u.cached_input_tokens <= u.input_tokens
            THEN /\ cout.cost.total_cost_usd =
                       u.input_tokens * cin.input_price
                       + u.output_tokens * cin.output_price
                 /\ \A k \in 0..u.input_tokens :
                       EstimateCost(Usage(u.input_tokens, u.output_tokens, k),
                                    cin.input_price, cin.output_price,
                                    cin.cached_price).total_cost_usd
                       = cout.cost.total_cost_usd
            ELSE /\ billed = u.cached_input_tokens * cin.input_price
                 /\ cin.input_price > 0 => billed > u.input_tokens * cin.input_price

\* part of the input cached, no cached-input price, a positive input price
C20_Witness ==
    /\ cout.done /\ ~cin.cached_price.some
    /\ cin.usage.cached_input_tokens > 0
    /\ cin.usage.cached_input_tokens < cin.usage.input_tokens
    /\ cin.input_price > 0
    /\ cout.cost.cached_input_cost_usd > 0
    /\ cout.cost.input_cost_usd > 0

====
